---- MODULE Spec2Model ----
(***************************************************************************)
(* Percolator interaction helper (CLI pipeline, interact.js lines 1-276)   *)
(* and local dashboard (page script and /api/status handler, lines         *)
(* 278-615), as state machines over an abstract ledger transport.          *)
(*                                                                         *)
(* Addresses are symbolic: a configured key is [id |-> name], a program    *)
(* derived address is the term [prog, seed] of its pre-image (the hash of  *)
(* findProgramAddressSync is idealised as collision free).  A base58       *)
(* string is [b58 |-> address]; an absent option is NONE, an invalid       *)
(* encoding is BAD.                                                        *)
(***************************************************************************)
EXTENDS Integers, Sequences, FiniteSets, TLC

VARIABLES
  cfg,        \* CLI: argv options and environment, read once at start-up
  ledger,     \* account address -> account info (Null when the account is absent)
  changes,    \* ledger changes made by the environment so far
  pc,         \* CLI: position of the pipeline
  ROUTER_ID,  \* CLI: module constants of lines 69-70
  SLAB_ID,
  payer,      \* CLI: main's locals
  USER,
  MINT,
  presence,   \* CLI: results of the four getPresence calls, by position
  topo,       \* CLI: the PDAs derived so far, by variable name
  rows,       \* CLI: the account-meta lines printed so far
  stdout,     \* CLI: the other outcome lines printed so far
  exitCode,   \* CLI: process exit code (-1 while running)
  inflight,   \* CLI: transport calls issued and not yet settled
  calls,      \* CLI: every transport call issued, in order
  inputs,     \* page: the router / slab / market input fields
  auto,       \* page: let auto
  timer,      \* page: whether the setInterval timer is armed
  display,    \* page: what the three tables show
  fetches,    \* page: refresh() invocations, by request id
  req,        \* server: /api/status handler instances, by request id
  nreq        \* number of requests started so far

cliVars  == <<cfg, pc, ROUTER_ID, SLAB_ID, payer, USER, MINT, presence, topo,
              rows, stdout, exitCode, inflight, calls>>
envVars  == <<ledger, changes>>
dashVars == <<inputs, auto, timer, display, fetches, req, nreq>>
vars     == <<cfg, ledger, changes, pc, ROUTER_ID, SLAB_ID, payer, USER, MINT,
              presence, topo, rows, stdout, exitCode, inflight, calls,
              inputs, auto, timer, display, fetches, req, nreq>>

----------------------------------------------------------------------------
(* Bounds of the model *)

MaxLedgerChanges == 1
MaxHung == 1
MaxFanOut == 3
MaxRequests == 2

----------------------------------------------------------------------------
(* Values *)

NONE == [none |-> TRUE]
BAD  == [bad |-> "not-base58"]
Null == [null |-> TRUE]
Nil  == [nil |-> TRUE]

Key(name) == [id |-> name]
ToBase58(addr) == [b58 |-> addr]
IsBase58(s) == DOMAIN s = {"b58"}
NewPublicKey(s) == s.b58

\* JS a || b for option values
Or(a, b) == IF a # NONE THEN a ELSE b
OrStr(a, b) == IF a # "" THEN a ELSE b

DEFAULT_ROUTER == ToBase58(Key("RoutR1VdCpHqj89WEMJhb6TkGT9cPfr1rVjhM3e2YQr"))
DEFAULT_SLAB   == ToBase58(Key("SLabZ6PsDLh2X6HzEoqxFDMqCVcJXDKCNEYuPzUvGPk"))
SYSTEM_ID      == ToBase58(Key("11111111111111111111111111111111"))
MEMO_ID        == ToBase58(Key("MemoSq4gqABAXKb96qnH8TysNcWxMyWCqXgDLGmfcHr"))
DEFAULT_MARKET == "BTC-PERP"

InvalidKeyError == "Invalid public key input"
TransportError  == "fetch failed"

----------------------------------------------------------------------------
(* Seeds and derivation *)

Lit(s)  == <<[lit |-> s]>>
ToBuffer(addr) == <<[key |-> addr]>>

RECURSIVE LittleEndian(_, _)
LittleEndian(n, width) ==
  IF width = 0 THEN <<>> ELSE <<[byte |-> n % 256]>> \o LittleEndian(n \div 256, width - 1)

\* Buffer.alloc(8) with writeBigUInt64LE(n)
u64LE(n) == LittleEndian(n, 8)

RECURSIVE Concat(_)
Concat(seeds) == IF seeds = <<>> THEN <<>> ELSE Head(seeds) \o Concat(Tail(seeds))

\* PublicKey.findProgramAddressSync(seeds, programId)[0]
FindProgramAddress(seeds, programId) == [prog |-> programId, seed |-> Concat(seeds)]

\* The derivation statements in the order both scripts execute them.
NodeOrder == <<"vaultPda", "slabStatePda", "escrowPda", "capPda",
               "portfolioPda", "registryPda", "authorityPda">>

\* Mutant: the authority statement copies the seeds of the slab-state statement
NodeSeedsCopied(node, t, user, mint, market) ==
  CASE node = "vaultPda"     -> <<Lit("vault"), ToBuffer(mint)>>
    [] node = "slabStatePda" -> <<Lit("slab"), Lit(market)>>
    [] node = "escrowPda"    -> <<Lit("escrow"), ToBuffer(user), ToBuffer(t.slabStatePda), ToBuffer(mint)>>
    [] node = "capPda"       -> <<Lit("cap"), ToBuffer(user), ToBuffer(t.slabStatePda), ToBuffer(mint), u64LE(1)>>
    [] node = "portfolioPda" -> <<Lit("portfolio"), ToBuffer(user)>>
    [] node = "registryPda"  -> <<Lit("registry")>>
    [] node = "authorityPda" -> <<Lit("slab"), Lit(market)>>

NodeSeeds(node, t, user, mint, market) ==
  CASE node = "vaultPda"     -> <<Lit("vault"), ToBuffer(mint)>>
    [] node = "slabStatePda" -> <<Lit("slab"), Lit(market)>>
    [] node = "escrowPda"    -> <<Lit("escrow"), ToBuffer(user), ToBuffer(t.slabStatePda), ToBuffer(mint)>>
    [] node = "capPda"       -> <<Lit("cap"), ToBuffer(user), ToBuffer(t.slabStatePda), ToBuffer(mint), u64LE(1)>>
    [] node = "portfolioPda" -> <<Lit("portfolio"), ToBuffer(user)>>
    [] node = "registryPda"  -> <<Lit("registry")>>
    [] node = "authorityPda" -> <<Lit("authority"), ToBuffer(t.slabStatePda)>>

NodeProgram(node, router, slab) ==
  IF node \in {"slabStatePda", "authorityPda"} THEN slab ELSE router

\* One derivation statement: binds `node` in the scope t of the names bound so far.
DeriveNode(node, t, router, slab, user, mint, market) ==
  [n \in DOMAIN t \cup {node} |->
     IF n = node
       THEN FindProgramAddress(NodeSeeds(node, t, user, mint, market),
                               NodeProgram(node, router, slab))
       ELSE t[n]]

EmptyTopo == [n \in {} |-> Nil]

RECURSIVE DeriveFirst(_, _, _, _, _, _)
DeriveFirst(k, router, slab, user, mint, market) ==
  IF k = 0 THEN EmptyTopo
  ELSE DeriveNode(NodeOrder[k], DeriveFirst(k - 1, router, slab, user, mint, market),
                  router, slab, user, mint, market)

\* dashboard deriveAllPDAs: parses its four base58 arguments, derives, returns base58
deriveAllPDAs(routerPk, slabPk, userPk, mintPk, market) ==
  LET t == DeriveFirst(Len(NodeOrder), NewPublicKey(routerPk), NewPublicKey(slabPk),
                       NewPublicKey(userPk), NewPublicKey(mintPk), market)
  IN  [n \in DOMAIN t |-> ToBase58(t[n])]

----------------------------------------------------------------------------
(* Ledger and transport *)

ExecAccount  == [executable |-> TRUE,  owner |-> "BPFLoader", lamports |-> 1, dataLen |-> 36]
DataAccount  == [executable |-> FALSE, owner |-> "Owner",     lamports |-> 1, dataLen |-> 8]

RouterKeys == {NewPublicKey(DEFAULT_ROUTER)}
SlabKeys   == {NewPublicKey(DEFAULT_SLAB)}
ProgramKeys == RouterKeys \cup SlabKeys
RegistryKeys == {FindProgramAddress(<<Lit("registry")>>, r) : r \in RouterKeys}
LedgerKeys == {NewPublicKey(SYSTEM_ID), NewPublicKey(MEMO_ID)} \cup ProgramKeys \cup RegistryKeys

\* connection.getAccountInfo(address) on a reachable transport
GetAccountInfo(l, addr) == IF addr \in DOMAIN l THEN l[addr] ELSE Null

MakeLedger(routerAcct, slabAcct, registryAcct) ==
  [a \in LedgerKeys |->
     IF a \in RouterKeys THEN routerAcct
     ELSE IF a \in SlabKeys THEN slabAcct
     ELSE IF a \in RegistryKeys THEN registryAcct
     ELSE ExecAccount]

InitLedgers ==
  { MakeLedger(Null, Null, Null),
    MakeLedger(ExecAccount, ExecAccount, DataAccount),
    MakeLedger(ExecAccount, DataAccount, Null) }

\* The ledger is changed by others only (a deploy, a close, a validator reset).
LedgerChange ==
  /\ changes < MaxLedgerChanges
  /\ \E a \in ProgramKeys, v \in {Null, ExecAccount, DataAccount} :
       /\ ledger[a] # v
       /\ ledger' = [ledger EXCEPT ![a] = v]
  /\ changes' = changes + 1
  /\ UNCHANGED <<cliVars, dashVars>>

Call(id, op, arg) == [id |-> id, op |-> op, arg |-> arg, status |-> "pending"]

----------------------------------------------------------------------------
(* CLI: configuration (lines 48-70) *)

DefaultCfg ==
  [optRouter |-> NONE, envRouter |-> NONE, optSlab |-> NONE, envSlab |-> NONE,
   optMarket |-> "", envMarket |-> "", optUser |-> NONE, envUser |-> NONE,
   optMint |-> NONE, envMint |-> NONE, optSimulate |-> TRUE, envSimulate |-> "",
   payerFile |-> "valid"]

Vary(c, v) == [c EXCEPT ![v[1]] = v[2]]

\* Departures from the default command line, taken one or two at a time.
CliVariations ==
  { <<"optRouter", BAD>>, <<"envSlab", BAD>>, <<"envSlab", DEFAULT_ROUTER>>,
    <<"optMarket", "ETH-PERP">>,
    <<"optUser", ToBase58(Key("User1"))>>, <<"optUser", BAD>>,
    <<"envUser", ToBase58(Key("User2"))>>,
    <<"optMint", ToBase58(Key("Mint1"))>>, <<"envMint", BAD>>,
    <<"optSimulate", FALSE>>, <<"payerFile", "missing">> }

UserVariations == {v \in CliVariations : v[1] \in {"optUser", "envUser"}}
MintVariations == {v \in CliVariations : v[1] \in {"optMint", "envMint"}}

CliConfigs ==
  {DefaultCfg} \cup {Vary(DefaultCfg, v) : v \in CliVariations}
    \cup {Vary(Vary(DefaultCfg, v), w) : v \in UserVariations, w \in MintVariations}

RouterString(c) == Or(Or(c.optRouter, c.envRouter), DEFAULT_ROUTER)
SlabString(c)   == Or(Or(c.optSlab, c.envSlab), DEFAULT_SLAB)
MARKET(c)   == OrStr(OrStr(c.optMarket, c.envMarket), DEFAULT_MARKET)
SIMULATE(c) == c.optSimulate \/ c.envSimulate = "1"

FilePayer == [publicKey |-> Key("FilePayer")]
EphemeralPayers == {[publicKey |-> Key("Ephemeral1")], [publicKey |-> Key("Ephemeral2")]}

\* tryLoadPayer: the key of the file, or a fresh random key pair
tryLoadPayer(file) == IF file = "valid" THEN {FilePayer} ELSE EphemeralPayers

UserString(c) == Or(c.optUser, c.envUser)
MintString(c) == Or(c.optMint, c.envMint)

\* Mutant: a fresh key pair stands in for the loaded payer
ResolveUserFresh(c, p) ==
  IF UserString(c) # NONE THEN NewPublicKey(UserString(c)) ELSE Key("Ephemeral2")

\* USER / MINT of lines 123-126 (for values that parse)
ResolveUser(c, p) == IF UserString(c) # NONE THEN NewPublicKey(UserString(c)) ELSE p.publicKey
ResolveMint(c, user) == IF MintString(c) # NONE THEN NewPublicKey(MintString(c)) ELSE user

----------------------------------------------------------------------------
(* CLI: helpers (lines 98-116, 201-226) *)

\* getPresence (CLI): the classification string
Classify(info) ==
  IF info = Null THEN "not found"
  ELSE IF info.executable THEN "executable program" ELSE "non-executable account"

\* Mutant: an absent account is reported as an empty one that exists
FetchMetaZeroed(ai) ==
  IF ai = Null THEN [exists |-> TRUE, lamports |-> 0, executable |-> FALSE,
                     owner |-> "", dataLen |-> 0]
  ELSE [exists |-> TRUE, lamports |-> ai.lamports, executable |-> ai.executable,
        owner |-> ai.owner, dataLen |-> ai.dataLen]

\* fetchMeta (CLI)
FetchMeta(ai) ==
  IF ai = Null THEN [exists |-> FALSE]
  ELSE [exists |-> TRUE, lamports |-> ai.lamports, executable |-> ai.executable,
        owner |-> ai.owner, dataLen |-> ai.dataLen]

PresenceTargets(router, slab) ==
  <<NewPublicKey(SYSTEM_ID), NewPublicKey(MEMO_ID), router, slab>>

Targets(router, slab, t) ==
  << [label |-> "System", pk |-> NewPublicKey(SYSTEM_ID)],
     [label |-> "Memo", pk |-> NewPublicKey(MEMO_ID)],
     [label |-> "Router", pk |-> router],
     [label |-> "Slab", pk |-> slab],
     [label |-> "Vault PDA", pk |-> t.vaultPda],
     [label |-> "Escrow PDA", pk |-> t.escrowPda],
     [label |-> "Cap PDA", pk |-> t.capPda],
     [label |-> "Portfolio PDA", pk |-> t.portfolioPda],
     [label |-> "Registry PDA", pk |-> t.registryPda],
     [label |-> "Slab State PDA", pk |-> t.slabStatePda],
     [label |-> "Authority PDA", pk |-> t.authorityPda] >>

NumTargets == 11

\* what the transport's simulation of the no-op reports
SimulationValue(l, programId) ==
  LET info == GetAccountInfo(l, programId)
  IN  IF info # Null /\ info.executable
        THEN [logs |-> <<"invoke">>, err |-> Null]
        ELSE [logs |-> <<>>, err |-> [msg |-> "ProgramAccountNotFound"]]

Line(tag, e) == [line |-> tag, e |-> e]

\* console.error('Fatal:', e); process.exit(1)
Fatal(msg) ==
  /\ stdout' = Append(stdout, Line("Fatal", msg))
  /\ exitCode' = 1
  /\ pc' = "fatal"
  /\ inflight' = {}

Logged(cs) == [i \in 1..Len(cs) |-> [op |-> cs[i].op, arg |-> cs[i].arg]]

\* The calls of sequence cs leave for the transport, in order
Issue(cs) ==
  /\ inflight' = {cs[i] : i \in 1..Len(cs)}
  /\ calls' = calls \o Logged(cs)

Pending(id) == {c \in inflight : c.id = id /\ c.status = "pending"}

\* simulateNoop up to its first await: the recency token fetch
BlockhashCall(id, programId) == Call(id, "getLatestBlockhash", programId)
\* Mutant: the signed transaction is sent for inclusion
SendCall(id, programId) == Call(id, "sendTransaction", programId)

\* simulateNoop after the token: simulation only
SimulateCall(id, programId) == Call(id, "simulateTransaction", programId)

\* Lines 257-272: the Slab block and the end of main, from the output so far
SlabSection(out) ==
  IF presence[4] = "executable program"
    THEN [pc |-> "slabBlockhash", out |-> Append(out, Line("Simulating Slab", Nil)),
          issue |-> <<BlockhashCall(18, SLAB_ID)>>]
    ELSE [pc |-> "done", issue |-> <<>>,
          out |-> out \o <<Line("Skipping Slab simulate", Nil), Line("Done.", Nil)>>]

\* Lines 241-256: the Router block
RouterSection(out) ==
  IF ~SIMULATE(cfg) THEN [pc |-> "done", out |-> Append(out, Line("Done.", Nil)), issue |-> <<>>]
  ELSE IF presence[3] = "executable program"
    THEN [pc |-> "routerBlockhash", out |-> Append(out, Line("Simulating Router", Nil)),
          issue |-> <<BlockhashCall(16, ROUTER_ID)>>]
    ELSE SlabSection(Append(out, Line("Skipping Router simulate", Nil)))

\* Continue main at section record s
Enter(s) ==
  /\ pc' = s.pc
  /\ stdout' = s.out
  /\ Issue(s.issue)
  /\ exitCode' = IF s.pc = "done" THEN 0 ELSE exitCode

----------------------------------------------------------------------------
(* CLI: the pipeline (lines 64-70, 118-276) *)

\* Lines 69-70: the program ids are parsed while the module loads
CliLoad ==
  /\ pc = "load"
  /\ IF IsBase58(RouterString(cfg)) /\ IsBase58(SlabString(cfg))
       THEN /\ ROUTER_ID' = NewPublicKey(RouterString(cfg))
            /\ SLAB_ID' = NewPublicKey(SlabString(cfg))
            /\ pc' = "main"
            /\ UNCHANGED <<stdout, exitCode>>
       ELSE /\ pc' = "crashed"
            /\ stdout' = Append(stdout, Line("Uncaught", InvalidKeyError))
            /\ exitCode' = 1
            /\ UNCHANGED <<ROUTER_ID, SLAB_ID>>
  /\ UNCHANGED <<cfg, payer, USER, MINT, presence, topo, rows, inflight, calls, envVars, dashVars>>

\* Lines 119-130: connection, payer, USER / MINT, then the version call
CliMain ==
  /\ pc = "main"
  /\ \E p \in tryLoadPayer(cfg.payerFile) :
       /\ payer' = p
       /\ IF UserString(cfg) # NONE /\ ~IsBase58(UserString(cfg))
            THEN /\ Fatal(InvalidKeyError)
                 /\ UNCHANGED <<USER, MINT, calls>>
            ELSE /\ USER' = ResolveUser(cfg, p)
                 /\ IF MintString(cfg) # NONE /\ ~IsBase58(MintString(cfg))
                      THEN /\ Fatal(InvalidKeyError)
                           /\ UNCHANGED <<MINT, calls>>
                      ELSE /\ MINT' = ResolveMint(cfg, ResolveUser(cfg, p))
                           /\ pc' = "version"
                           /\ Issue(<<Call(0, "getVersion", Nil)>>)
                           /\ UNCHANGED <<stdout, exitCode>>
  /\ UNCHANGED <<cfg, ROUTER_ID, SLAB_ID, presence, topo, rows, envVars, dashVars>>

PresenceCalls ==
  [i \in 1..4 |-> Call(i, "getAccountInfo", PresenceTargets(ROUTER_ID, SLAB_ID)[i])]

\* Lines 130-148: the version arrives (or its failure is swallowed), the header is
\* printed and Promise.all starts the four presence reads together
CliVersionSettle(ok) ==
  /\ pc = "version"
  /\ Pending(0) # {}
  /\ stdout' = Append(stdout, Line("RPC version", IF ok THEN "version" ELSE "{}"))
  /\ Issue(PresenceCalls)
  /\ pc' = "presence"
  /\ UNCHANGED <<cfg, ROUTER_ID, SLAB_ID, payer, USER, MINT, presence, topo, rows,
                 exitCode, envVars, dashVars>>

CliVersionReturn == CliVersionSettle(TRUE)
CliVersionThrow == CliVersionSettle(FALSE)

\* One of the four presence reads returns; the last one lets main go on
CliPresenceReturn(i) ==
  /\ pc = "presence"
  /\ \E c \in Pending(i) :
       /\ presence' = [presence EXCEPT ![i] = Classify(GetAccountInfo(ledger, c.arg))]
       /\ inflight' = inflight \ {c}
       /\ pc' = IF inflight \ {c} = {} THEN "derive" ELSE "presence"
  /\ UNCHANGED <<cfg, ROUTER_ID, SLAB_ID, payer, USER, MINT, topo, rows, stdout,
                 exitCode, calls, envVars, dashVars>>

\* One of them fails: Promise.all rejects, main rejects, lines 273-276
CliPresenceThrow(i) ==
  /\ pc = "presence"
  /\ Pending(i) # {}
  /\ Fatal(TransportError)
  /\ UNCHANGED <<cfg, ROUTER_ID, SLAB_ID, payer, USER, MINT, presence, topo, rows,
                 calls, envVars, dashVars>>

MetaCall(i, t) == Call(4 + i, "getAccountInfo", Targets(ROUTER_ID, SLAB_ID, t)[i].pk)

\* Lines 155-198, one derivation statement at a time; after the last one the
\* loop of line 228 issues its first read
CliDerive ==
  /\ pc = "derive"
  /\ LET k == Cardinality(DOMAIN topo) + 1
         t == DeriveNode(NodeOrder[k], topo, ROUTER_ID, SLAB_ID, USER, MINT, MARKET(cfg))
     IN  /\ topo' = t
         /\ IF k < Len(NodeOrder)
              THEN UNCHANGED <<pc, inflight, calls>>
              ELSE /\ pc' = "meta"
                   /\ Issue(<<MetaCall(1, t)>>)
  /\ UNCHANGED <<cfg, ROUTER_ID, SLAB_ID, payer, USER, MINT, presence, rows, stdout,
                 exitCode, envVars, dashVars>>

\* Lines 228-238: the read of target Len(rows)+1 returns and its line is printed;
\* then the next read, or the simulate step
CliMetaReturn ==
  /\ pc = "meta"
  /\ LET i == Len(rows) + 1
         tg == Targets(ROUTER_ID, SLAB_ID, topo)[i]
     IN  /\ Pending(4 + i) # {}
         /\ rows' = Append(rows, [label |-> tg.label, pubkey |-> ToBase58(tg.pk),
                                  meta |-> FetchMeta(GetAccountInfo(ledger, tg.pk))])
         /\ IF i < NumTargets
              THEN /\ Issue(<<MetaCall(i + 1, topo)>>)
                   /\ UNCHANGED <<pc, stdout, exitCode>>
              ELSE Enter(RouterSection(stdout))
  /\ UNCHANGED <<cfg, ROUTER_ID, SLAB_ID, payer, USER, MINT, presence, topo, envVars, dashVars>>

CliMetaThrow ==
  /\ pc = "meta"
  /\ Pending(4 + Len(rows) + 1) # {}
  /\ Fatal(TransportError)
  /\ UNCHANGED <<cfg, ROUTER_ID, SLAB_ID, payer, USER, MINT, presence, topo, rows,
                 calls, envVars, dashVars>>

\* simulateNoop line 112 -> 114: the token arrived, the signed transaction is simulated
CliBlockhashReturn ==
  /\ pc \in {"routerBlockhash", "slabBlockhash"}
  /\ \E c \in {x \in inflight : x.status = "pending"} :
       /\ Issue(<<SimulateCall(c.id + 1, c.arg)>>)
       /\ pc' = IF pc = "routerBlockhash" THEN "routerSimulate" ELSE "slabSimulate"
  /\ UNCHANGED <<cfg, ROUTER_ID, SLAB_ID, payer, USER, MINT, presence, topo, rows, stdout,
                 exitCode, envVars, dashVars>>

\* Lines 246-248 / 260-262: the simulation's value is printed
CliSimulateReturn ==
  /\ pc \in {"routerSimulate", "slabSimulate"}
  /\ \E c \in {x \in inflight : x.status = "pending"} :
       LET out == Append(stdout, Line(IF pc = "routerSimulate" THEN "Router logs" ELSE "Slab logs",
                                      SimulationValue(ledger, c.arg)))
       IN  IF pc = "routerSimulate"
             THEN Enter(SlabSection(out))
             ELSE Enter([pc |-> "done", out |-> Append(out, Line("Done.", Nil)), issue |-> <<>>])
  /\ UNCHANGED <<cfg, ROUTER_ID, SLAB_ID, payer, USER, MINT, presence, topo, rows, envVars, dashVars>>

\* Mutant: the try/catch around simulateNoop is missing and the failure reaches
\* main's catch
CliSimulateThrowUncaught ==
  /\ pc \in {"routerBlockhash", "routerSimulate", "slabBlockhash", "slabSimulate"}
  /\ \E c \in inflight : c.status = "pending"
  /\ Fatal(TransportError)
  /\ UNCHANGED <<cfg, ROUTER_ID, SLAB_ID, payer, USER, MINT, presence, topo, rows,
                 calls, envVars, dashVars>>

\* Lines 249-251 / 263-265: a failure of either call of simulateNoop is caught
CliSimulateThrow ==
  /\ pc \in {"routerBlockhash", "routerSimulate", "slabBlockhash", "slabSimulate"}
  /\ \E c \in {x \in inflight : x.status = "pending"} :
       LET router == pc \in {"routerBlockhash", "routerSimulate"}
           out == Append(stdout, Line(IF router THEN "Router simulate failed"
                                                ELSE "Slab simulate failed", TransportError))
       IN  IF router
             THEN Enter(SlabSection(out))
             ELSE Enter([pc |-> "done", out |-> Append(out, Line("Done.", Nil)), issue |-> <<>>])
  /\ UNCHANGED <<cfg, ROUTER_ID, SLAB_ID, payer, USER, MINT, presence, topo, rows, envVars, dashVars>>

\* A transport call that never settles: no timeout is set anywhere.  (The handler
\* of the dashboard awaits the same calls the same way; its runs are modelled
\* with calls that settle.)
CliHang ==
  /\ Cardinality({x \in inflight : x.status = "hung"}) < MaxHung
  /\ \E c \in {x \in inflight : x.status = "pending"} :
       inflight' = (inflight \ {c}) \cup {[c EXCEPT !.status = "hung"]}
  /\ UNCHANGED <<cfg, pc, ROUTER_ID, SLAB_ID, payer, USER, MINT, presence, topo, rows,
                 stdout, exitCode, calls, envVars, dashVars>>

DashIdle ==
  /\ inputs = [router |-> DEFAULT_ROUTER, slab |-> DEFAULT_SLAB, market |-> DEFAULT_MARKET]
  /\ auto = FALSE
  /\ timer = FALSE
  /\ display = Nil
  /\ fetches = <<>>
  /\ req = <<>>
  /\ nreq = 0

CliIdle ==
  /\ ROUTER_ID = Nil
  /\ SLAB_ID = Nil
  /\ payer = Nil
  /\ USER = Nil
  /\ MINT = Nil
  /\ presence = [i \in 1..4 |-> "?"]
  /\ topo = EmptyTopo
  /\ rows = <<>>
  /\ stdout = <<>>
  /\ exitCode = -1
  /\ inflight = {}
  /\ calls = <<>>

CliInit ==
  /\ cfg \in CliConfigs
  /\ ledger \in InitLedgers
  /\ changes = 0
  /\ pc = "load"
  /\ CliIdle
  /\ DashIdle

CliStep ==
  \/ CliLoad
  \/ CliMain
  \/ CliVersionReturn
  \/ CliVersionThrow
  \/ \E i \in 1..4 : CliPresenceReturn(i)
  \/ \E i \in 1..4 : CliPresenceThrow(i)
  \/ CliDerive
  \/ CliMetaReturn
  \/ CliMetaThrow
  \/ CliBlockhashReturn
  \/ CliSimulateReturn
  \/ CliSimulateThrow
  \/ CliHang

CliNext == CliStep \/ LedgerChange

SpecCli == CliInit /\ [][CliNext]_vars

----------------------------------------------------------------------------
(* Pure derivation: the statements of lines 155-198 on arbitrary roots *)

RootKeys == {Key("User1"), Key("Mint1"), FilePayer.publicKey} \cup RouterKeys

DeriveInit ==
  /\ cfg \in {Vary(DefaultCfg, <<"optMarket", m>>) : m \in {"", "ETH-PERP", "registry"}}
  /\ ledger = MakeLedger(Null, Null, Null)
  /\ changes = 0
  /\ pc = "derive"
  /\ ROUTER_ID \in ProgramKeys
  /\ SLAB_ID \in ProgramKeys
  /\ payer = FilePayer
  /\ USER \in RootKeys
  /\ MINT \in RootKeys
  /\ presence = [i \in 1..4 |-> "not found"]
  /\ topo = EmptyTopo
  /\ rows = <<>>
  /\ stdout = <<>>
  /\ exitCode = -1
  /\ inflight = {}
  /\ calls = <<>>
  /\ DashIdle

SpecDerive == DeriveInit /\ [][CliDerive]_vars

----------------------------------------------------------------------------
(* Dashboard: the /api/status handler (lines 324-333, 542-610) *)

\* getPresence (dashboard): the object spread into the presence entry
DashPresence(info) ==
  IF info = Null THEN [status |-> "not found"]
  ELSE [status |-> IF info.executable THEN "executable program" ELSE "non-executable account",
        lamports |-> info.lamports, owner |-> info.owner, dataLen |-> info.dataLen]

\* Lines 588-595: the four fields are all null for an absent account
DashMeta(label, pk, ai) ==
  [label |-> label, pubkey |-> pk,
   info |-> IF ai = Null THEN Null
            ELSE [owner |-> ai.owner, exec |-> ai.executable, data |-> ai.dataLen,
                  lamports |-> ai.lamports]]

\* Lines 543-546, from the page's fields (an empty field gives the default)
Query(in) ==
  [routerPk |-> Or(in.router, DEFAULT_ROUTER), slabPk |-> Or(in.slab, DEFAULT_SLAB),
   market |-> OrStr(in.market, DEFAULT_MARKET)]

DashPresenceLabels(q) ==
  << [label |-> "System", pubkey |-> SYSTEM_ID], [label |-> "Memo", pubkey |-> MEMO_ID],
     [label |-> "Router", pubkey |-> q.routerPk], [label |-> "Slab", pubkey |-> q.slabPk] >>

\* Lines 567-575
PdaList(p) ==
  << [label |-> "Vault PDA", pubkey |-> p.vaultPda],
     [label |-> "Escrow PDA", pubkey |-> p.escrowPda],
     [label |-> "Cap PDA (nonce=1)", pubkey |-> p.capPda],
     [label |-> "Portfolio PDA", pubkey |-> p.portfolioPda],
     [label |-> "Registry PDA", pubkey |-> p.registryPda],
     [label |-> "Slab State PDA", pubkey |-> p.slabStatePda],
     [label |-> "Authority PDA", pubkey |-> p.authorityPda] >>

\* Lines 578-584
DashLabels(q, pdas) == DashPresenceLabels(q) \o pdas

\* The handler as it stands after its first await is reached (line 551)
NewRequest(q) ==
  [query |-> q, pc |-> "version", payer |-> Nil, userPk |-> Nil, mintPk |-> Nil,
   pres |-> <<>>, pdas |-> <<>>, metas |-> <<>>,
   inflight |-> {Call(0, "getVersion", Nil)},
   calls |-> <<[op |-> "getVersion", arg |-> Nil]>>,
   version |-> Nil, response |-> Nil]

RPending(r, id) == {c \in req[r].inflight : c.id = id /\ c.status = "pending"}

\* res.status(500).json({ error: e.message })
Status500(msg) == [status |-> 500, body |-> [error |-> msg]]

\* Line 608 from handler h: the try block's locals are gone with it
Caught(h, msg, left) ==
  [h EXCEPT !.pc = "responded", !.response = Status500(msg), !.inflight = left,
            !.pres = <<>>, !.pdas = <<>>, !.metas = <<>>]

\* The presence reads whose address parses, in the order lines 559-562 start them
DashPresenceCalls(q) ==
  LET L == DashPresenceLabels(q)
      F[i \in 0..4] ==
        IF i = 0 THEN <<>>
        ELSE IF IsBase58(L[i].pubkey)
               THEN Append(F[i - 1], Call(i, "getAccountInfo", NewPublicKey(L[i].pubkey)))
               ELSE F[i - 1]
  IN  F[4]

\* Lines 551-563: the version arrives (or its failure is swallowed), the payer is
\* loaded, the presence reads start; an address that does not parse rejects its
\* entry, Promise.all rejects and line 608 answers
DashVersionSettle(r, ok) ==
  /\ req[r].pc = "version"
  /\ RPending(r, 0) # {}
  /\ \E p \in tryLoadPayer(cfg.payerFile) :
       LET q == req[r].query
           cs == DashPresenceCalls(q)
           bad == Len(cs) < 4
           base == [req[r] EXCEPT !.version = IF ok THEN "version" ELSE "{}",
                                  !.payer = p,
                                  !.userPk = ToBase58(p.publicKey),
                                  !.mintPk = ToBase58(p.publicKey),
                                  !.pres = [i \in 1..4 |-> Nil],
                                  !.inflight = {cs[i] : i \in 1..Len(cs)},
                                  !.calls = req[r].calls \o Logged(cs)]
       IN  req' = [req EXCEPT ![r] =
                     IF bad THEN Caught(base, InvalidKeyError, base.inflight)
                            ELSE [base EXCEPT !.pc = "presence"]]
  /\ UNCHANGED <<cliVars, envVars, inputs, auto, timer, display, fetches, nreq>>

DashVersionReturn(r) == DashVersionSettle(r, TRUE)
DashVersionThrow(r) == DashVersionSettle(r, FALSE)

DashMetaCall(i, labels) == Call(4 + i, "getAccountInfo", NewPublicKey(labels[i].pubkey))

\* A presence read returns; after the last one lines 566-587 derive the PDAs and
\* start the first read of the metas loop
DashPresenceReturn(r, i) ==
  /\ req[r].pc = "presence"
  /\ \E c \in RPending(r, i) :
       LET q == req[r].query
           L == DashPresenceLabels(q)[i]
           entry == [label |-> L.label, pubkey |-> L.pubkey,
                     p |-> DashPresence(GetAccountInfo(ledger, c.arg))]
           left == req[r].inflight \ {c}
           base == [req[r] EXCEPT !.pres[i] = entry, !.inflight = left]
           pdas == PdaList(deriveAllPDAs(q.routerPk, q.slabPk, req[r].userPk,
                                         req[r].mintPk, q.market))
           first == DashMetaCall(1, DashLabels(q, pdas))
       IN  req' = [req EXCEPT ![r] =
                     IF left # {} THEN base
                     ELSE [base EXCEPT !.pc = "metas", !.pdas = pdas,
                                       !.inflight = {first},
                                       !.calls = base.calls \o Logged(<<first>>)]]
  /\ UNCHANGED <<cliVars, envVars, inputs, auto, timer, display, fetches, nreq>>

\* A presence read fails: Promise.all rejects, line 608 answers; the other reads
\* stay in flight with nobody waiting for them
DashPresenceThrow(r, i) ==
  /\ req[r].pc = "presence"
  /\ \E c \in RPending(r, i) :
       req' = [req EXCEPT ![r] = Caught(req[r], TransportError, req[r].inflight \ {c})]
  /\ UNCHANGED <<cliVars, envVars, inputs, auto, timer, display, fetches, nreq>>

\* res.json of lines 598-606
Status200(h) ==
  [status |-> 200,
   body |-> [version |-> h.version, payer |-> h.userPk, user |-> h.userPk, mint |-> h.mintPk,
             presence |-> h.pres, pdas |-> h.pdas, metas |-> h.metas]]

\* Lines 586-606: a read of the loop returns and its entry is pushed; then the
\* next read, or the answer
DashMetaReturn(r) ==
  /\ req[r].pc = "metas"
  /\ LET q == req[r].query
         labels == DashLabels(q, req[r].pdas)
         i == Len(req[r].metas) + 1
     IN  \E c \in RPending(r, 4 + i) :
           LET pushed == [req[r] EXCEPT !.metas = Append(req[r].metas,
                             DashMeta(labels[i].label, labels[i].pubkey,
                                      GetAccountInfo(ledger, c.arg)))]
               next == DashMetaCall(i + 1, labels)
           IN  req' = [req EXCEPT ![r] =
                         IF i < NumTargets
                           THEN [pushed EXCEPT !.inflight = {next},
                                               !.calls = pushed.calls \o Logged(<<next>>)]
                           ELSE [pushed EXCEPT !.inflight = {}, !.pc = "responded",
                                               !.response = Status200(pushed)]]
  /\ UNCHANGED <<cliVars, envVars, inputs, auto, timer, display, fetches, nreq>>

\* A read of the loop fails: line 608 answers and the entries pushed are dropped
DashMetaThrow(r) ==
  /\ req[r].pc = "metas"
  /\ RPending(r, 4 + Len(req[r].metas) + 1) # {}
  /\ req' = [req EXCEPT ![r] = Caught(req[r], TransportError, {})]
  /\ UNCHANGED <<cliVars, envVars, inputs, auto, timer, display, fetches, nreq>>

\* A read left behind by a rejected Promise.all settles unobserved (nothing reads
\* the order in which the leftovers settle: they are taken by ascending id)
DashOrphanSettle(r) ==
  /\ req[r].pc = "responded"
  /\ \E c \in {x \in req[r].inflight : x.status = "pending"} :
       /\ \A y \in req[r].inflight : y.status = "pending" => c.id <= y.id
       /\ req' = [req EXCEPT ![r].inflight = req[r].inflight \ {c}]
  /\ UNCHANGED <<cliVars, envVars, inputs, auto, timer, display, fetches, nreq>>

----------------------------------------------------------------------------
(* Dashboard: the page script (lines 458-535) *)

\* What the user may have typed into the fields before a refresh reads them
DashInputs ==
  { [router |-> DEFAULT_ROUTER, slab |-> DEFAULT_SLAB, market |-> DEFAULT_MARKET],
    [router |-> BAD, slab |-> NONE, market |-> ""] }

\* refresh() up to its first await (lines 466-470): the fields are read as they
\* stand, the fetch leaves and the handler starts
Refresh ==
  /\ nreq < MaxRequests
  /\ nreq' = nreq + 1
  /\ fetches' = Append(fetches, "waiting")
  /\ \E in \in DashInputs :
       /\ inputs' = in
       /\ req' = Append(req, NewRequest(Query(in)))

\* The Refresh button (line 435) or the call that ends the script (line 535)
PageRefresh ==
  /\ Refresh
  /\ UNCHANGED <<cliVars, envVars, auto, timer, display>>

\* setInterval(refresh, 2000) of line 529 fires
PageTimerTick ==
  /\ timer
  /\ Refresh
  /\ UNCHANGED <<cliVars, envVars, auto, timer, display>>

\* autoToggle (lines 524-533)
PageAutoToggle ==
  /\ auto' = ~auto
  /\ IF ~auto
       THEN /\ Refresh
            /\ timer' = TRUE
       ELSE /\ timer' = FALSE
            /\ UNCHANGED <<inputs, fetches, req, nreq>>
  /\ UNCHANGED <<cliVars, envVars, display>>

\* refresh() after its awaits (lines 471-521): the tables are rewritten from the
\* answer; an answer without data.rpc throws before anything is written
PageReceive(r) ==
  /\ fetches[r] = "waiting"
  /\ req[r].response # Nil
  /\ IF req[r].response.status = 200
       THEN /\ display' = [from |-> r, data |-> req[r].response.body]
            /\ fetches' = [fetches EXCEPT ![r] = "rendered"]
       ELSE /\ fetches' = [fetches EXCEPT ![r] = "threw"]
            /\ UNCHANGED display
  /\ UNCHANGED <<cliVars, envVars, inputs, auto, timer, req, nreq>>

\* The fields as the page is served (lines 431-434)
PageDefaults == [router |-> DEFAULT_ROUTER, slab |-> DEFAULT_SLAB, market |-> DEFAULT_MARKET]

\* Server environment and ledger the dashboard starts against
DashEnvironments ==
  { <<DefaultCfg, MakeLedger(ExecAccount, ExecAccount, DataAccount)>>,
    <<Vary(DefaultCfg, <<"payerFile", "missing">>), MakeLedger(ExecAccount, DataAccount, Null)>> }

DashInit ==
  /\ \E e \in DashEnvironments : cfg = e[1] /\ ledger = e[2]
  /\ changes = 0
  /\ pc = "off"
  /\ CliIdle
  /\ inputs = PageDefaults
  /\ auto = FALSE
  /\ timer = FALSE
  /\ display = Nil
  /\ fetches = <<>>
  /\ req = <<>>
  /\ nreq = 0

DashStep ==
  \/ PageRefresh
  \/ PageTimerTick
  \/ PageAutoToggle
  \/ \E r \in 1..nreq : PageReceive(r)
  \/ \E r \in 1..nreq : DashVersionReturn(r)
  \/ \E r \in 1..nreq : DashVersionThrow(r)
  \/ \E r \in 1..nreq, i \in 1..4 : DashPresenceReturn(r, i)
  \/ \E r \in 1..nreq, i \in 1..4 : DashPresenceThrow(r, i)
  \/ \E r \in 1..nreq : DashMetaReturn(r)
  \/ \E r \in 1..nreq : DashMetaThrow(r)
  \/ \E r \in 1..nreq : DashOrphanSettle(r)

DashNext == DashStep

SpecDash == DashInit /\ [][DashNext]_vars

----------------------------------------------------------------------------
(* Root resolution on arbitrary user / mint options: the CLI's lines 119-130 and
   the handler's lines 549-563 *)

RootConfigs ==
  { [DefaultCfg EXCEPT !.optUser = ou, !.envUser = eu, !.optMint = om, !.envMint = em,
                       !.payerFile = f] :
      ou \in {NONE, ToBase58(Key("User1")), BAD},
      eu \in {NONE, ToBase58(Key("User2"))},
      om \in {NONE, ToBase58(Key("Mint1")), BAD},
      em \in {NONE, ToBase58(Key("Mint2"))},
      f \in {"valid", "missing", "corrupt"} }

CfgInit ==
  /\ cfg \in RootConfigs
  /\ ledger = MakeLedger(ExecAccount, ExecAccount, DataAccount)
  /\ changes = 0
  /\ pc = "main"
  /\ ROUTER_ID = NewPublicKey(DEFAULT_ROUTER)
  /\ SLAB_ID = NewPublicKey(DEFAULT_SLAB)
  /\ payer = Nil
  /\ USER = Nil
  /\ MINT = Nil
  /\ presence = [i \in 1..4 |-> "?"]
  /\ topo = EmptyTopo
  /\ rows = <<>>
  /\ stdout = <<>>
  /\ exitCode = -1
  /\ inflight = {}
  /\ calls = <<>>
  /\ DashIdle

CfgNext ==
  \/ CliMain
  \/ PageRefresh
  \/ \E r \in 1..nreq : DashVersionReturn(r)
  \/ \E r \in 1..nreq : DashVersionThrow(r)

SpecCfg == CfgInit /\ [][CfgNext]_vars

\* The scheduler runs every enabled continuation and the transport settles or
\* abandons every call; the ledger's other users owe nothing.
FairSpecCli == SpecCli /\ WF_vars(CliStep)

----------------------------------------------------------------------------
(* Properties of the CLI pipeline *)

Terminated == pc \in {"done", "fatal", "crashed"}

Issued(op, arg) == \E k \in 1..Len(calls) : calls[k].op = op /\ calls[k].arg = arg

Max(S) == CHOOSE x \in S : \A y \in S : y <= x

\* Whether the most recent observation of program p obtained so far in the run
\* (a meta line if there is one, else a presence result) shows it executable.
LatestObservationExecutable(p) ==
  LET lines == {i \in 1..Len(rows) : rows[i].pubkey = ToBase58(p)}
      pres  == {i \in 1..4 : PresenceTargets(ROUTER_ID, SLAB_ID)[i] = p /\ presence[i] # "?"}
  IN  IF lines # {}
        THEN LET m == rows[Max(lines)].meta IN m.exists /\ m.executable
        ELSE pres # {} /\ presence[Max(pres)] = "executable program"

\* C1: a simulateTransaction call for the Router or the Slab has been issued only
\* if the latest observation of that program in the run shows it executable.
C1_SimulateOnlyIfLatestExecutable ==
  pc \notin {"load", "crashed"} =>
    \A p \in {ROUTER_ID, SLAB_ID} :
      Issued("simulateTransaction", p) => LatestObservationExecutable(p)

\* C2: when a read of the probe loop fails, every other target still has its
\* line in the report.
C2_PartialFailureIsolated ==
  (pc = "fatal" /\ Cardinality(DOMAIN topo) = Len(NodeOrder)) =>
    \A i \in (1..NumTargets) \ {Len(rows) + 1} :
      \E k \in 1..Len(rows) : rows[k].label = Targets(ROUTER_ID, SLAB_ID, topo)[i].label

\* C4: whatever fan-out limit L is asked for, at most L account reads are in
\* flight at a time, and no address is read twice in a run.
C4_BoundedFanOut ==
  /\ \A L \in 1..MaxFanOut :
       Cardinality({c \in inflight : c.op = "getAccountInfo"}) <= L
  /\ \A j, k \in 1..Len(calls) :
       (calls[j].op = "getAccountInfo" /\ calls[k].op = "getAccountInfo"
          /\ calls[j].arg = calls[k].arg) => j = k

\* C5: every run terminates, also when a transport call never returns.
C5_RunTerminates == <>Terminated

ReadOnlyOps == {"getVersion", "getAccountInfo", "getLatestBlockhash", "simulateTransaction"}

\* C10: the run issues only reads, the recency-token fetch and simulations, and
\* the ledger changes only in steps of its other users, in which the run issues
\* nothing.
C10_SimulationOnly ==
  [][ /\ \A k \in 1..Len(calls') : calls'[k].op \in ReadOnlyOps
      /\ ledger' # ledger => (calls' = calls /\ pc' = pc /\ changes' = changes + 1) ]_vars

\* C10 witness: a finished run that simulated both programs.
C10_Witness ==
  /\ pc = "done"
  /\ Issued("simulateTransaction", ROUTER_ID)
  /\ Issued("simulateTransaction", SLAB_ID)
  /\ ROUTER_ID # SLAB_ID

\* C11: a read of an absent account is not an error.  The presence read of an
\* absent account classifies it "not found" and the meta read gives the
\* observation {exists: false}; in neither step does the run fail, after the meta
\* line the read of the next target is issued, and a run that finishes has a
\* line for every target and exit code 0.
C11_NotFoundIsNotAnError ==
  [][ /\ rows' # rows =>
           LET i  == Len(rows')
               T  == Targets(ROUTER_ID, SLAB_ID, topo)
           IN  GetAccountInfo(ledger, T[i].pk) = Null =>
                 /\ rows'[i].meta = [exists |-> FALSE]
                 /\ pc' \notin {"fatal", "crashed"}
                 /\ exitCode' # 1
                 /\ i < NumTargets =>
                      /\ Len(calls') = Len(calls) + 1
                      /\ calls'[Len(calls')] = [op |-> "getAccountInfo", arg |-> T[i + 1].pk]
      /\ \A i \in 1..4 :
           ( /\ presence'[i] # presence[i]
             /\ GetAccountInfo(ledger, PresenceTargets(ROUTER_ID, SLAB_ID)[i]) = Null )
           => /\ presence'[i] = "not found"
              /\ pc' \notin {"fatal", "crashed"}
              /\ exitCode' # 1
      /\ (pc' = "done" /\ pc # "done") =>
           /\ Len(rows') = NumTargets
           /\ exitCode' = 0 ]_vars

\* C11 witness: a finished run that found the Router absent at both reads and
\* still has its eleven lines.
C11_Witness ==
  /\ pc = "done"
  /\ exitCode = 0
  /\ presence[3] = "not found"
  /\ Len(rows) = NumTargets
  /\ rows[3].meta = [exists |-> FALSE]
  /\ \E k \in 4..NumTargets : rows[k].meta # [exists |-> FALSE]

DryRunOps == {"getLatestBlockhash", "simulateTransaction"}

InRouterDryRun == pc \in {"routerBlockhash", "routerSimulate"}

\* The step prints the line of a failed Router dry run
RouterDryRunFails ==
  /\ Len(stdout') > Len(stdout)
  /\ stdout'[Len(stdout) + 1].line = "Router simulate failed"

\* C14: a failure of the Router dry run (of its recency-token fetch or of its
\* simulate call) is reported for the Router only: the step that reports it
\* keeps the observations and the lines printed so far, prints no failure of the
\* Slab and no fatal error, and goes on to the Slab dry run when the presence
\* check classified the Slab executable (else to a normal end); a run never
\* fails once a dry run has started, and a finished run has exit code 0.
C14_SimulationErrorsIsolated ==
  [][ /\ RouterDryRunFails =>
           /\ InRouterDryRun
           /\ rows' = rows /\ presence' = presence /\ topo' = topo
           /\ SubSeq(stdout', 1, Len(stdout)) = stdout
           /\ \A k \in (Len(stdout) + 2)..Len(stdout') :
                stdout'[k].line \notin {"Router simulate failed", "Slab simulate failed", "Fatal"}
           /\ IF presence[4] = "executable program"
                THEN /\ pc' = "slabBlockhash"
                     /\ Len(calls') = Len(calls) + 1
                     /\ calls'[Len(calls')] = [op |-> "getLatestBlockhash", arg |-> SLAB_ID]
                ELSE /\ pc' = "done"
                     /\ calls' = calls
      /\ (InRouterDryRun /\ pc' # pc) => pc' \in {"routerSimulate", "slabBlockhash", "done"}
      /\ (pc' \in {"fatal", "crashed"} \/ exitCode' = 1) =>
           \A k \in 1..Len(calls') : calls'[k].op \notin DryRunOps
      /\ pc' = "done" => exitCode' = 0 ]_vars

\* C14 witness: a finished run whose Router dry run failed and whose Slab dry run
\* then printed its logs.
C14_Witness ==
  /\ pc = "done"
  /\ exitCode = 0
  /\ Len(rows) = NumTargets
  /\ \E j, k \in 1..Len(stdout) :
       /\ j < k
       /\ stdout[j].line = "Router simulate failed"
       /\ stdout[k].line = "Slab logs"

----------------------------------------------------------------------------
(* Properties of the dashboard *)

Responded(r) == req[r].response # Nil

\* C3: while auto-refresh is on, at most one run has transport calls in flight
\* at any moment.
C3_OneRunAtATime ==
  auto => Cardinality({r \in 1..nreq : req[r].inflight # {}}) <= 1

MalformedQuery(r) == ~IsBase58(req[r].query.routerPk) \/ ~IsBase58(req[r].query.slabPk)

\* C6: a run whose configured address is malformed is rejected before it has
\* issued any transport call.
C6_ConfigErrorBeforeTransport ==
  \A r \in 1..nreq : (Responded(r) /\ MalformedQuery(r)) => req[r].calls = <<>>

\* What a caller can tell an answer by without reading the error's free text
OutcomeKind(r) == [status |-> req[r].response.status, fields |-> DOMAIN req[r].response.body]

\* C7: a run that failed on a malformed configuration and a run that failed on
\* an unreachable transport never report the same kind of outcome.
C7_SituationsDistinguished ==
  \A r1, r2 \in 1..nreq :
    ( /\ Responded(r1) /\ MalformedQuery(r1)
      /\ Responded(r2) /\ ~MalformedQuery(r2) /\ req[r2].response.status # 200 )
    => OutcomeKind(r1) # OutcomeKind(r2)

\* C15: the tables show the data of the most recently started refresh among
\* those that have rendered: no refresh started after the one on display has
\* already written the tables (its data would have been overwritten by an older
\* answer arriving late).
C15_DisplayIsLatest ==
  display # Nil =>
    \A r \in 1..nreq : fetches[r] = "rendered" => r <= display.from

Answered200(r) == Responded(r) /\ req[r].response.status = 200

\* C16: two requests with the same query parameters that were both answered
\* (the ledger being the same for both) report the same user, the same mint and
\* the same seven derived addresses.
C16_StableDefaultRoots ==
  \A r1, r2 \in 1..nreq :
    (Answered200(r1) /\ Answered200(r2) /\ req[r1].query = req[r2].query) =>
      /\ req[r1].response.body.user = req[r2].response.body.user
      /\ req[r1].response.body.mint = req[r2].response.body.mint
      /\ req[r1].response.body.pdas = req[r2].response.body.pdas

----------------------------------------------------------------------------
(* Properties of the derivation *)

Distinct(f) == \A a, b \in DOMAIN f : a # b => f[a] # f[b]

\* C8: the statements executed so far never use a slab-state address other than
\* the one the topology holds, which is bound before escrow, cap and authority;
\* the finished topology has seven pairwise different addresses; and the
\* dashboard's deriveAllPDAs gives, for the same roots, seven pairwise different
\* strings whose escrow, cap and authority embed its slab-state address.
C8_TopologyComplete ==
  LET D == deriveAllPDAs(ToBase58(ROUTER_ID), ToBase58(SLAB_ID), ToBase58(USER),
                         ToBase58(MINT), MARKET(cfg))
      slabSeed(t, n, i) == t[n].seed[i] = [key |-> t.slabStatePda]
      dashSeed(n, i) == NewPublicKey(D[n]).seed[i] = [key |-> NewPublicKey(D.slabStatePda)]
  IN  /\ \A n \in {"escrowPda", "capPda", "authorityPda"} :
           n \in DOMAIN topo =>
             /\ "slabStatePda" \in DOMAIN topo
             /\ slabSeed(topo, n, IF n = "authorityPda" THEN 2 ELSE 3)
      /\ Distinct(topo)
      /\ pc = "meta" =>
           /\ Cardinality(DOMAIN topo) = 7
           /\ Cardinality({topo[n] : n \in DOMAIN topo}) = 7
           /\ Cardinality({D[n] : n \in DOMAIN D}) = 7
           /\ \A n \in {"escrowPda", "capPda", "authorityPda"} :
                dashSeed(n, IF n = "authorityPda" THEN 2 ELSE 3)
           /\ \A n \in DOMAIN topo : D[n] = ToBase58(topo[n])

\* C8 witness: a finished topology for one program id serving as router and slab,
\* and one key serving as user and mint.
C8_Witness ==
  /\ pc = "meta"
  /\ Cardinality(DOMAIN topo) = 7
  /\ ROUTER_ID = SLAB_ID
  /\ USER = MINT

----------------------------------------------------------------------------
(* Properties of the root resolution *)

UserAbsent == cfg.optUser = NONE /\ cfg.envUser = NONE
MintAbsent == cfg.optMint = NONE /\ cfg.envMint = NONE

\* C9 as claimed: an absent user root is the loaded identity, and an absent mint
\* root is the loaded identity.
C9_DefaultsToIdentity ==
  pc = "version" =>
    /\ UserAbsent => USER = payer.publicKey
    /\ MintAbsent => MINT = payer.publicKey

\* C9 as amended: an absent user root is the loaded identity and an absent mint
\* root is the user root (the identity only when the user is absent too); the
\* dashboard, which takes neither option, uses the identity it loaded for the
\* request as both.
C9_DefaultsAmended ==
  /\ pc = "version" =>
       /\ UserAbsent => USER = payer.publicKey
       /\ MintAbsent => MINT = USER
  /\ \A r \in 1..nreq :
       req[r].payer # Nil =>
         /\ req[r].userPk = ToBase58(req[r].payer.publicKey)
         /\ req[r].mintPk = ToBase58(req[r].payer.publicKey)

\* C9 witness: the user is supplied, the mint is omitted, and a dashboard request
\* has loaded its identity.
C9_Witness ==
  /\ pc = "version"
  /\ ~UserAbsent
  /\ MintAbsent
  /\ MINT = USER
  /\ USER # payer.publicKey
  /\ \E r \in 1..nreq : req[r].payer # Nil

====
